---- MODULE Spec2Model ----
(***************************************************************************)
(* The real-time voice session of SiteVoice: the VoiceSessionManager of    *)
(* src/unnamed/part_002 (connect, setupMicrophone, handleServerMessage,    *)
(* stopAllAudio, disconnect) and the part of App.tsx that drives it        *)
(* (startVoice with its message and error callbacks, stopConversation,     *)
(* resetToHome), with the conversions of the audio path (createBlob,       *)
(* encode, decode, decodeAudioData) and the microphone capture.            *)
(*                                                                         *)
(* Scheduling model.  The host is one JavaScript event loop.  An event     *)
(* (a user gesture, a promise settled by the platform, an 'ended' event,   *)
(* an advance of AudioContext.currentTime) runs only when the microtask    *)
(* queue is empty.  `await` of an `async` function's result suspends the   *)
(* caller and queues its continuation on the microtask queue, which is     *)
(* served first-in first-out.  The transport (the @google/genai client,    *)
(* not part of this repository) calls `onmessage` once per inbound         *)
(* message, in order; nothing in the repository makes it wait for the      *)
(* previous call's continuation, so a delivery may find continuations of   *)
(* earlier deliveries still queued.                                        *)
(*                                                                         *)
(* Time is counted in units of half a second.                              *)
(***************************************************************************)
EXTENDS Integers, Sequences, FiniteSets, TLC

\* ------------------------------------------------------------------ bounds
MaxClock == 2        \* AudioContext.currentTime stops advancing here
MaxMsgs == 3         \* inbound messages delivered in one behaviour
MaxSessions == 2     \* VoiceSessionManagers startVoice may create
MaxFrames == 3       \* audio frames the ScriptProcessor hands to a manager

VARIABLES
    mgrs,        \* the VoiceSessionManager objects created so far
    hist,        \* per manager: history the claims refer to (not program state)
    microtasks,  \* the event loop's microtask queue: suspended continuations
    budget,      \* inbound messages the transport may still deliver
    lastOp,      \* the handler that ran last (history)
    app,         \* App.tsx: component state and refs
    codec,       \* the argument and the result of a conversion under study
    rec          \* services/geminiService.ts: the MediaRecorder-based manager

vars == <<mgrs, hist, microtasks, budget, lastOp, app, codec, rec>>

Max(a, b) == IF a >= b THEN a ELSE b

\* ---------------------------------------------------------------- messages
\* A LiveServerMessage, reduced to the fields the code reads.  audio is the
\* duration of serverContent.modelTurn.parts[0].inlineData (0: no modelTurn);
\* Absent stands for a missing inputTranscription / outputTranscription.
Absent == <<"absent">>

Msg(audio, interrupted, inT, outT, tc) ==
    [audio |-> audio, interrupted |-> interrupted,
     inputTranscription |-> inT, outputTranscription |-> outT,
     turnComplete |-> tc]

\* An inlineData payload that cannot be decoded: atob() throws on it
\* (BadBase64), or it decodes to an odd number of bytes, on which
\* `new Int16Array(data.buffer)` throws (OddBytes).
BadBase64 == -1
OddBytes == -2

malformed(msg) == msg.audio < 0

\* What the transport delivers in the playback specification ...
AudioMsgs ==
    { Msg(1, FALSE, Absent, Absent, FALSE),
      Msg(2, FALSE, Absent, Absent, FALSE),
      Msg(0, TRUE, Absent, Absent, FALSE),
      Msg(1, TRUE, Absent, Absent, FALSE) }

\* ... and in the application specification.
TurnMsgs ==
    { Msg(0, FALSE, <<"a">>, Absent, FALSE),
      Msg(0, FALSE, Absent, <<"b">>, FALSE),
      Msg(0, FALSE, Absent, Absent, TRUE) }

\* ... and in the decoding specification: a chunk, a chunk that closes the
\* turn, and payloads that do not decode.
DecodeMsgs ==
    { Msg(1, FALSE, Absent, Absent, FALSE),
      Msg(BadBase64, FALSE, Absent, Absent, FALSE),
      Msg(OddBytes, FALSE, Absent, Absent, TRUE) }

\* --------------------------------------------------- VoiceSessionManager
\* The fields of a freshly constructed manager.  stream, inputContext and
\* audioContext are "none" for null; a context is "running" or "closed"
\* (close() is taken to complete at once).  session is the transport
\* connection of ai.live.connect.
\* currentTime is audioContext.currentTime.  A member of sources is
\* [n, when, dur, at, pend]: the n-th audio chunk of the session, started with
\* source.start(when), of duration dur; at is currentTime when its message was
\* handed to handleServerMessage and pend the end of the chunk scheduled
\* before it (-1: none since the last stopAllAudio, or a stopAllAudio ran
\* while this chunk was being decoded), both kept for the claims.
\* thens holds the captured frames whose `sessionPromise.then` callback
\* waits for the promise, in the order they were registered.
NewManager ==
    [pc |-> "new", stream |-> "none", inputContext |-> "none",
     audioContext |-> "none", session |-> "none", capture |-> FALSE,
     nextStartTime |-> 0, sources |-> {}, currentTime |-> 0,
     apiKey |-> "missing", thens |-> <<>>]

\* The credential a manager is constructed with: one the service accepts,
\* one it rejects, or none ('' in App.tsx when API_KEY is not set).
ApiKeys == {"valid", "invalid", "missing"}

\* new VoiceSessionManager(apiKey, onMessage, onError).
VoiceSessionManager(apiKey) == [NewManager EXCEPT !.apiKey = apiKey]

NoStart == [n |-> 0]

NewHist ==
    [chunks |-> 0, intAt |-> 0, sinceInt |-> -1, epochEnd |-> -1,
     lastStart |-> NoStart, cancelled |-> FALSE, awaited |-> FALSE,
     inSince |-> <<>>, outSince |-> <<>>,
     errors |-> 0, reported |-> 0, rethrown |-> 0,
     delivered |-> 0, called |-> 0, lastCb |-> 0, dropped |-> 0,
     captured |-> 0, sent |-> <<>>, flushed |-> 0, disconnected |-> FALSE,
     denied |-> FALSE, scheduled |-> {}, gone |-> {}]

\* (a variant that resets nextStartTime and leaves the set as it is)
stopAllAudioKeepsSources(m) == [m EXCEPT !.nextStartTime = 0]

\* stopAllAudio(): stop every source, clear the set, reset nextStartTime.
stopAllAudio(m) ==
    [m EXCEPT !.sources = {}, !.nextStartTime = 0]

\* (a variant that never raises nextStartTime to the clock)
sampleClockStale(m) == m

\* (a variant that sets nextStartTime to the clock)
sampleClockReset(m) == [m EXCEPT !.nextStartTime = m.currentTime]

\* handleServerMessage up to its await: nextStartTime = max(nextStartTime,
\* currentTime).
sampleClock(m) ==
    [m EXCEPT !.nextStartTime = Max(m.nextStartTime, m.currentTime)]

\* handleServerMessage after its await: source.start(nextStartTime),
\* nextStartTime += duration, sources.add(source).
scheduleSource(m, src) ==
    [m EXCEPT !.nextStartTime = m.nextStartTime + src.dur,
              !.sources = m.sources \cup {src}]

\* The guard of the audio branch: base64Audio && this.audioContext.
hasAudio(m, msg) == msg.audio # 0 /\ m.audioContext # "none"

\* (a variant in which a decode failure takes the session down)
decodeThrowsFatal(m) == [sampleClock(m) EXCEPT !.session = "failed"]

\* The audio branch on a payload that does not decode: decode() or
\* decodeAudioData() throws after nextStartTime was raised to the clock, and
\* handleServerMessage rejects.
decodeThrows(m) == sampleClock(m)

\* `if (ctx && ctx.state !== 'closed') ctx.close()`.
closeContext(c) == IF c = "running" THEN "closed" ELSE c

\* disconnect().
disconnect(m) ==
    [stopAllAudio(m) EXCEPT
        !.stream = IF m.stream = "live" THEN "stopped" ELSE m.stream,
        !.inputContext = closeContext(m.inputContext),
        !.audioContext = closeContext(m.audioContext)]

\* setupMicrophone(): returns early without an input context or a stream.
setupMicrophone(m) ==
    IF m.inputContext = "none" \/ m.stream = "none" THEN m
    ELSE [m EXCEPT !.capture = TRUE]

\* ------------------------------------------------- the audio conversions
\* A binary string is the sequence of its UTF-16 code units, a Uint8Array
\* the sequence of its bytes, a base64 string the sequence of the values of
\* its characters, Pad standing for '='.
Pad == 64
Int16Scale == 32768

fromCharCode(n) == n % 65536

toUint8(n) == n % 256

\* (a variant that saturates at the ends of the 16-bit range)
toInt16Clamped(num, den) ==
    LET t == IF num >= 0 THEN num \div den ELSE -((-num) \div den)
    IN  IF t > 32767 THEN 32767 ELSE IF t < -32768 THEN -32768 ELSE t

\* The store into an Int16Array of a number x = num / den: truncation
\* towards zero, then reduction modulo 2^16 to [-32768, 32767].
toInt16(num, den) ==
    LET t == IF num >= 0 THEN num \div den ELSE -((-num) \div den)
        u == t % 65536
    IN  IF u >= 32768 THEN u - 65536 ELSE u

RECURSIVE btoa(_)
btoa(str) ==
    IF Len(str) = 0 THEN <<>>
    ELSE IF Len(str) = 1
    THEN <<str[1] \div 4, (str[1] % 4) * 16, Pad, Pad>>
    ELSE IF Len(str) = 2
    THEN <<str[1] \div 4, (str[1] % 4) * 16 + str[2] \div 16,
           (str[2] % 16) * 4, Pad>>
    ELSE <<str[1] \div 4, (str[1] % 4) * 16 + str[2] \div 16,
           (str[2] % 16) * 4 + str[3] \div 64, str[3] % 64>>
         \o btoa(SubSeq(str, 4, Len(str)))

RECURSIVE atob(_)
atob(b64) ==
    IF Len(b64) < 4 THEN <<>>
    ELSE (IF b64[3] = Pad
          THEN <<b64[1] * 4 + b64[2] \div 16>>
          ELSE IF b64[4] = Pad
          THEN <<b64[1] * 4 + b64[2] \div 16,
                 (b64[2] % 16) * 16 + b64[3] \div 4>>
          ELSE <<b64[1] * 4 + b64[2] \div 16,
                 (b64[2] % 16) * 16 + b64[3] \div 4,
                 (b64[3] % 4) * 64 + b64[4]>>)
         \o atob(SubSeq(b64, 5, Len(b64)))

\* (a variant that keeps seven bits of each byte)
encode7bit(bytes) ==
    btoa([k \in 1..Len(bytes) |-> fromCharCode(bytes[k] % 128)])

\* encode(bytes): String.fromCharCode of each byte, then btoa.
encode(bytes) ==
    btoa([k \in 1..Len(bytes) |-> fromCharCode(bytes[k])])

\* decode(base64): atob, then charCodeAt of each character into a Uint8Array.
decode(base64) ==
    LET binaryString == atob(base64)
    IN  [k \in 1..Len(binaryString) |-> toUint8(binaryString[k])]

\* A sample is the numerator of a fraction over SampleDen, so 1.0 is
\* SampleDen and data[i] * 32768 is data[i] / (SampleDen / Int16Scale).
\* createBlob(data): int16[i] = data[i] * 32768, the bytes of the Int16Array
\* (low byte first), encoded.
SampleDen == 2 * Int16Scale

int16Bytes(v) ==
    LET u == v % 65536 IN <<u % 256, u \div 256>>

RECURSIVE flatten(_)
flatten(ss) == IF ss = <<>> THEN <<>> ELSE Head(ss) \o flatten(Tail(ss))

createBlob(data) ==
    encode(flatten([k \in 1..Len(data) |->
        int16Bytes(toInt16(data[k], SampleDen \div Int16Scale))]))

\* decodeAudioData(data, ctx, 24000, 1): the bytes read as an Int16Array,
\* each value divided by 32768.0; a result is the numerator over Int16Scale.
decodeAudioData(data) ==
    [k \in 1..(Len(data) \div 2) |->
        LET u == data[2 * k - 1] + 256 * data[2 * k]
        IN  IF u >= 32768 THEN u - 65536 ELSE u]

\* ------------------------------------------------------------------- App
AppInitial ==
    [state |-> "IDLE", websiteData |-> FALSE, error |-> "none",
     transcriptions |-> <<>>, isModelSpeaking |-> FALSE,
     isUserSpeaking |-> FALSE,
     transcriptionBuffer |-> [user |-> <<>>, model |-> <<>>],
     current |-> 0, analyzing |-> FALSE, apiKey |-> "missing",
     mode |-> "VOICE", chatSession |-> FALSE, isChatLoading |-> FALSE,
     stream |-> [pc |-> "none", full |-> <<>>], replyEntry |-> 0]

\* (a variant that appends an entry for each side, empty or not)
turnEntriesBothSides(user, model) ==
    <<[text |-> user, type |-> "user"], [text |-> model, type |-> "model"]>>

\* The entries a TurnComplete appends.
turnEntries(user, model) ==
    (IF user # <<>> THEN <<[text |-> user, type |-> "user"]>> ELSE <<>>)
    \o (IF model # <<>> THEN <<[text |-> model, type |-> "model"]>> ELSE <<>>)

\* The turnComplete branch of the message callback.
turnComplete(a) ==
    [a EXCEPT
        !.transcriptions = a.transcriptions
            \o turnEntries(a.transcriptionBuffer.user, a.transcriptionBuffer.model),
        !.transcriptionBuffer = [user |-> <<>>, model |-> <<>>],
        !.isModelSpeaking = FALSE,
        !.isUserSpeaking = FALSE]

\* (a variant whose inputTranscription branch leaves isModelSpeaking alone)
onMessageUserOnly(a, msg) ==
    LET a1 == IF msg.audio # 0
              THEN [a EXCEPT !.isModelSpeaking = TRUE, !.isUserSpeaking = FALSE]
              ELSE a
        a2 == IF msg.outputTranscription # Absent
              THEN [a1 EXCEPT !.transcriptionBuffer.model = @ \o msg.outputTranscription]
              ELSE a1
        a3 == IF msg.inputTranscription # Absent
              THEN [a2 EXCEPT !.transcriptionBuffer.user = @ \o msg.inputTranscription,
                              !.isUserSpeaking = TRUE]
              ELSE a2
    IN  IF msg.turnComplete THEN turnComplete(a3) ELSE a3

\* The message callback startVoice gives the manager.
onMessage(a, msg) ==
    LET a1 == IF msg.audio # 0
              THEN [a EXCEPT !.isModelSpeaking = TRUE, !.isUserSpeaking = FALSE]
              ELSE a
        a2 == IF msg.outputTranscription # Absent
              THEN [a1 EXCEPT !.transcriptionBuffer.model = @ \o msg.outputTranscription]
              ELSE a1
        a3 == IF msg.inputTranscription # Absent
              THEN [a2 EXCEPT !.transcriptionBuffer.user = @ \o msg.inputTranscription,
                              !.isUserSpeaking = TRUE, !.isModelSpeaking = FALSE]
              ELSE a2
    IN  IF msg.turnComplete THEN turnComplete(a3) ELSE a3

\* The error callback startVoice gives the manager.
onError(a) == [a EXCEPT !.error = "Connection reset.", !.state = "READY"]

\* startVoice's catch around `await connect()`.
startVoiceCatch(a) ==
    [a EXCEPT !.error = "Microphone access required.", !.state = "IDLE"]

\* ---------------------------------------------------------------- history
\* lastOp names the handler that ran last when a claim speaks of it:
\* "disconnect" (again: the handler before it was a disconnect() of the same
\* manager; active: the manager was Active when it was called),
\* "interrupted" (an Interrupted event was handled), "connectFailed",
\* "transportError" (the transport's onerror ran on an open session),
\* "decodeFailed" (a payload that does not decode was handled).
\* hist counts, per manager, the transport errors that occurred (errors), the
\* calls of the error callback for them (reported) and the rejections of
\* connect() for them (rethrown); the frames onaudioprocess was given
\* (captured, numbered from 1), the frames handed to
\* session.sendRealtimeInput in the order of the calls (sent), and how many
\* of them had waited for the session promise (flushed); whether
\* disconnect() was called while the transport session was open
\* (disconnected); whether getUserMedia rejected (denied).
Quiet == [op |-> "other", m |-> 0, again |-> FALSE, active |-> FALSE]

Op(op, i) == [op |-> op, m |-> i, again |-> FALSE, active |-> FALSE]

Active(m) ==
    /\ m.pc = "resolved"
    /\ m.session = "open"
    /\ m.stream = "live"
    /\ m.inputContext = "running"
    /\ m.audioContext = "running"

\* Events of the host run between turns of the event loop only.
Idle == microtasks = <<>>

\* A queued continuation: of manager m, for message msg, suspended in
\* handleServerMessage ("decode") or in onmessage ("callback").  The rest is
\* history: n, the number of audio chunks that had arrived with msg; at, the
\* clock when msg arrived; fai, msg is the first chunk to arrive after a
\* handled interruption; cut, an interruption was handled since msg arrived;
\* expUser and expModel, the transcription its session had received since
\* its last TurnComplete when msg arrived; seq, the position of msg among
\* the messages the transport delivered to the manager.
Task(i, kind, msg, n, at, fai, expUser, expModel) ==
    [m |-> i, kind |-> kind, msg |-> msg, n |-> n, at |-> at, fai |-> fai,
     cut |-> FALSE, expUser |-> expUser, expModel |-> expModel, seq |-> 0]

cutTasks(q, i) ==
    [k \in 1..Len(q) |->
        IF q[k].m = i /\ q[k].kind = "decode"
        THEN [q[k] EXCEPT !.cut = TRUE] ELSE q[k]]

\* No conversion under study.
NoCodec == [kind |-> "none", input |-> <<>>, output |-> <<>>, done |-> FALSE]

\* The MediaRecorder-based VoiceSessionManager after construction.
\* mediaRecorder: the field is not null; tasks: the tasks MediaRecorder.stop()
\* queued (live: the stream was live when the recording started); procs: the
\* processAudioChunks calls in flight, each with the chunks of its blob.
\* History: the chunks ondataavailable was given (recorded, numbered from
\* 1), the chunks of the blobs handed to fetch, in order (sent), whether
\* an encoding or a request failed (failed).
NewRecorder ==
    [mediaRecorder |-> FALSE, audioStream |-> "none", isRecording |-> FALSE,
     live |-> FALSE, audioChunks |-> <<>>, tasks |-> <<>>, procs |-> <<>>,
     recordings |-> 0, next |-> 1, recorded |-> {}, sent |-> <<>>,
     failed |-> FALSE]

\* ------------------------------------------------------------------ Init
Init ==
    /\ mgrs \in {<<VoiceSessionManager(k)>> : k \in ApiKeys}
    /\ hist = <<NewHist>>
    /\ microtasks = <<>>
    /\ budget = MaxMsgs
    /\ lastOp = Quiet
    /\ app = AppInitial
    /\ codec = NoCodec
    /\ rec = NewRecorder

\* ------------------------------------------------- connect(), lines 208-252
\* (a variant that asks for the microphone again)
connectCatchRetry(m) == [m EXCEPT !.pc = "awaitMic"]

\* The catch of connect(): the error callback, then the rethrow, which
\* startVoice (when it is the caller) catches.
connectCatch(m) == [m EXCEPT !.pc = "failed"]

connectCatchApp(a, awaited) ==
    IF awaited THEN startVoiceCatch(onError(a)) ELSE onError(a)

\* `new GoogleGenAI({ apiKey })` is the first statement of connect().  The
\* client library is not part of the repository: without a key its
\* constructor may throw or may build a client the service will reject.
constructorThrows(apiKey) == IF apiKey = "missing" THEN BOOLEAN ELSE {FALSE}

\* connect() up to `await getUserMedia`, or into its catch.
connectStart(m, throws) ==
    IF throws THEN connectCatch(m) ELSE [m EXCEPT !.pc = "awaitMic"]

Connect(i) ==
    /\ Idle
    /\ mgrs[i].pc = "new"
    /\ \E throws \in constructorThrows(mgrs[i].apiKey) :
          /\ mgrs' = [mgrs EXCEPT ![i] = connectStart(mgrs[i], throws)]
          /\ app' = IF throws THEN connectCatchApp(app, hist[i].awaited) ELSE app
          /\ lastOp' = IF throws THEN Op("connectFailed", i) ELSE Quiet
    /\ UNCHANGED <<hist, microtasks, budget, codec, rec>>

\* getUserMedia resolves: the stream is kept, both contexts are created and
\* ai.live.connect is called; connect() suspends on the session promise.
acquire(m) ==
    [m EXCEPT !.stream = "live", !.inputContext = "running",
              !.audioContext = "running", !.currentTime = 0,
              !.session = "connecting", !.pc = "awaitSession"]

MicGranted(i) ==
    /\ Idle
    /\ mgrs[i].pc = "awaitMic"
    /\ mgrs' = [mgrs EXCEPT ![i] = acquire(mgrs[i])]
    /\ lastOp' = Quiet
    /\ UNCHANGED <<hist, microtasks, budget, app, codec, rec>>

\* getUserMedia rejects (permission denied).
MicDenied(i) ==
    /\ Idle
    /\ mgrs[i].pc = "awaitMic"
    /\ mgrs' = [mgrs EXCEPT ![i] = connectCatch(mgrs[i])]
    /\ app' = connectCatchApp(app, hist[i].awaited)
    /\ hist' = [hist EXCEPT ![i].denied = TRUE]
    /\ lastOp' = Op("connectFailed", i)
    /\ UNCHANGED <<microtasks, budget, codec, rec>>

\* The session promise rejects (the transport could not be opened).
TransportFail(i) ==
    /\ Idle
    /\ mgrs[i].pc = "awaitSession"
    /\ mgrs[i].session = "connecting"
    /\ mgrs' = [mgrs EXCEPT ![i] = connectCatch([mgrs[i] EXCEPT !.session = "failed"])]
    /\ app' = connectCatchApp(app, hist[i].awaited)
    /\ hist' = [hist EXCEPT ![i].errors = @ + 1, ![i].reported = @ + 1,
                            ![i].rethrown = @ + 1]
    /\ lastOp' = Op("connectFailed", i)
    /\ UNCHANGED <<microtasks, budget, codec, rec>>

\* The transport's onerror callback on an open session: console.error and
\* the error callback.  The connection is lost.
OnError(i) ==
    /\ Idle
    /\ mgrs[i].session = "open"
    /\ mgrs' = [mgrs EXCEPT ![i].session = "failed"]
    /\ app' = onError(app)
    /\ hist' = [hist EXCEPT ![i].errors = @ + 1, ![i].reported = @ + 1]
    /\ lastOp' = Op("transportError", i)
    /\ UNCHANGED <<microtasks, budget, codec, rec>>

\* The transport's onopen callback: setupMicrophone(sessionPromise).  The
\* service opens a session for a key it accepts only.
OnOpen(i) ==
    /\ Idle
    /\ mgrs[i].session = "connecting"
    /\ mgrs[i].apiKey = "valid"
    /\ mgrs' = [mgrs EXCEPT ![i] = setupMicrophone([mgrs[i] EXCEPT !.session = "open"])]
    /\ lastOp' = Quiet
    /\ UNCHANGED <<hist, microtasks, budget, app, codec, rec>>

\* The session promise resolves.  Its reactions run in the order they
\* were registered: `this.session = await sessionPromise; return
\* this.session` with the caller's continuation (startVoice:
\* setState(CONVERSING)), then the `then` callbacks of the frames captured
\* so far, each calling session.sendRealtimeInput.
SessionResolved(i) ==
    /\ Idle
    /\ mgrs[i].pc = "awaitSession"
    /\ mgrs[i].session = "open"
    /\ mgrs' = [mgrs EXCEPT ![i].pc = "resolved", ![i].thens = <<>>]
    /\ hist' = [hist EXCEPT ![i].sent = @ \o mgrs[i].thens,
                            ![i].flushed = Len(mgrs[i].thens)]
    /\ app' = IF hist[i].awaited THEN [app EXCEPT !.state = "CONVERSING"] ELSE app
    /\ lastOp' = Quiet
    /\ UNCHANGED <<microtasks, budget, codec, rec>>

\* (a variant that registers the newest callback first)
thenLifo(thens, frame) == <<frame>> \o thens

\* sessionPromise.then(callback) on a pending promise: the callback joins
\* the promise's reactions behind those registered before.
then(thens, frame) == Append(thens, frame)

\* The ScriptProcessor's onaudioprocess, while the input context runs:
\* createBlob of the frame, then sessionPromise.then(session =>
\* session.sendRealtimeInput(...)), whose callback runs at the end of this
\* task when the promise is resolved already.
AudioProcess(i) ==
    LET m == mgrs[i]
        frame == hist[i].captured + 1
    IN
    /\ Idle
    /\ m.capture
    /\ m.inputContext = "running"
    /\ hist[i].captured < MaxFrames
    /\ IF m.pc = "resolved"
       THEN /\ hist' = [hist EXCEPT ![i].captured = frame,
                                    ![i].sent = Append(@, frame)]
            /\ mgrs' = mgrs
       ELSE /\ hist' = [hist EXCEPT ![i].captured = frame]
            /\ mgrs' = [mgrs EXCEPT ![i].thens = then(m.thens, frame)]
    /\ lastOp' = Quiet
    /\ UNCHANGED <<microtasks, budget, app, codec, rec>>

\* ------------------------------------ onmessage / handleServerMessage
\* The history an Interrupted event leaves: the chunks that had arrived by
\* the time its message did, and a fresh scheduling epoch.
\* The chunks of the sources in the live set, and the history a flush of
\* the set of m leaves: those chunks have left it.
ids(S) == {s.n : s \in S}

noteFlush(h, m) == [h EXCEPT !.gone = @ \cup ids(m.sources)]

noteInterrupt(h, n) ==
    [h EXCEPT !.intAt = Max(h.intAt, n), !.sinceInt = 0, !.epochEnd = -1]

noteText(h, msg) ==
    LET inS  == IF msg.inputTranscription # Absent
                THEN h.inSince \o msg.inputTranscription ELSE h.inSince
        outS == IF msg.outputTranscription # Absent
                THEN h.outSince \o msg.outputTranscription ELSE h.outSince
    IN  IF msg.turnComplete
        THEN [h EXCEPT !.inSince = <<>>, !.outSince = <<>>]
        ELSE [h EXCEPT !.inSince = inS, !.outSince = outS]

expected(h, msg, side) ==
    IF side = "user"
    THEN (IF msg.inputTranscription # Absent
          THEN h.inSince \o msg.inputTranscription ELSE h.inSince)
    ELSE (IF msg.outputTranscription # Absent
          THEN h.outSince \o msg.outputTranscription ELSE h.outSince)

\* The transport calls onmessage(msg): handleServerMessage runs to its first
\* await.  With audio it samples the clock and suspends on decodeAudioData;
\* without, it runs to its end (stopAllAudio on `interrupted`) and onmessage
\* suspends on the await of its result.  On a payload that does not decode
\* handleServerMessage rejects, and with it onmessage: neither the rest of
\* handleServerMessage nor the message callback runs for msg.
Deliver(i, msg) ==
    LET m == mgrs[i]
        h == [noteText(hist[i], msg) EXCEPT !.delivered = @ + 1]
        eU == expected(hist[i], msg, "user")
        eM == expected(hist[i], msg, "model")
    IN
    /\ m.session = "open"
    /\ budget > 0
    /\ budget' = budget - 1
    /\ IF hasAudio(m, msg) /\ malformed(msg)
       THEN /\ mgrs' = [mgrs EXCEPT ![i] = decodeThrows(m)]
            /\ hist' = [hist EXCEPT ![i] =
                   [h EXCEPT !.chunks = h.chunks + 1, !.dropped = h.chunks + 1]]
            /\ microtasks' = microtasks
            /\ lastOp' = Op("decodeFailed", i)
       ELSE IF hasAudio(m, msg)
       THEN /\ mgrs' = [mgrs EXCEPT ![i] = sampleClock(m)]
            /\ hist' = [hist EXCEPT ![i] =
                   [h EXCEPT !.chunks = h.chunks + 1,
                             !.sinceInt = IF h.sinceInt = -1 THEN -1 ELSE 1]]
            /\ microtasks' = Append(microtasks,
                   [Task(i, "decode", msg, h.chunks + 1, m.currentTime,
                         h.sinceInt = 0, eU, eM) EXCEPT !.seq = h.delivered])
            /\ lastOp' = Quiet
       ELSE /\ mgrs' = [mgrs EXCEPT ![i] =
                   IF msg.interrupted THEN stopAllAudio(m) ELSE m]
            /\ hist' = [hist EXCEPT ![i] =
                   IF msg.interrupted
                   THEN noteInterrupt(noteFlush(h, m), h.chunks) ELSE h]
            /\ microtasks' = Append(
                   IF msg.interrupted THEN cutTasks(microtasks, i) ELSE microtasks,
                   [Task(i, "callback", msg, h.chunks, m.currentTime, FALSE, eU, eM)
                       EXCEPT !.seq = h.delivered])
            /\ lastOp' = IF msg.interrupted THEN Op("interrupted", i) ELSE Quiet
    /\ UNCHANGED <<app, codec, rec>>

\* handleServerMessage resumes after `await decodeAudioData`: the source is
\* created, started at nextStartTime and added to the live set; then the
\* `interrupted` branch; then onmessage suspends on the await of the result.
RunDecoded ==
    /\ microtasks # <<>>
    /\ Head(microtasks).kind = "decode"
    /\ LET t == Head(microtasks)
           i == t.m
           m == mgrs[i]
           h == hist[i]
           src == [n |-> t.n, when |-> m.nextStartTime, dur |-> t.msg.audio,
                   at |-> t.at, pend |-> IF t.cut THEN -1 ELSE h.epochEnd]
           m1 == scheduleSource(m, src)
           h1 == [h EXCEPT
                    !.epochEnd = src.when + src.dur,
                    !.scheduled = @ \cup {src.n},
                    !.lastStart = [n |-> src.n, when |-> src.when, dur |-> src.dur,
                                   at |-> src.at, pend |-> src.pend,
                                   nst |-> m1.nextStartTime, fai |-> t.fai,
                                   stale |-> t.n <= h.intAt]]
       IN  /\ mgrs' = [mgrs EXCEPT ![i] =
                  IF t.msg.interrupted THEN stopAllAudio(m1) ELSE m1]
           /\ hist' = [hist EXCEPT ![i] =
                  IF t.msg.interrupted
                  THEN noteInterrupt(noteFlush(h1, m1), t.n) ELSE h1]
           /\ microtasks' = Append(
                  IF t.msg.interrupted THEN cutTasks(Tail(microtasks), i)
                  ELSE Tail(microtasks),
                  [t EXCEPT !.kind = "callback"])
           /\ lastOp' = IF t.msg.interrupted THEN Op("interrupted", i) ELSE Quiet
    /\ UNCHANGED <<budget, app, codec, rec>>

\* onmessage resumes after `await this.handleServerMessage(message)`:
\* this.onMessageCallback(message).
RunCallback ==
    /\ microtasks # <<>>
    /\ Head(microtasks).kind = "callback"
    /\ app' = onMessage(app, Head(microtasks).msg)
    /\ hist' = [hist EXCEPT ![Head(microtasks).m].called = @ + 1,
                            ![Head(microtasks).m].lastCb = Head(microtasks).seq]
    /\ microtasks' = Tail(microtasks)
    /\ lastOp' = Quiet
    /\ UNCHANGED <<mgrs, budget, codec, rec>>

\* --------------------------------------------------------- the audio clock
\* audioContext.currentTime advances while the context runs.
Tick(i) ==
    /\ Idle
    /\ mgrs[i].audioContext = "running"
    /\ mgrs[i].currentTime < MaxClock
    /\ mgrs' = [mgrs EXCEPT ![i].currentTime = @ + 1]
    /\ lastOp' = Quiet
    /\ UNCHANGED <<hist, microtasks, budget, app, codec, rec>>

\* A source started with start(when) plays from max(when, the time of the
\* call) for its duration.
playEnd(s) == Max(s.when, s.at) + s.dur

\* The 'ended' listener of a source that has played out: sources.delete.
Ended(i) ==
    /\ Idle
    /\ mgrs[i].audioContext = "running"
    /\ \E s \in mgrs[i].sources :
          /\ mgrs[i].currentTime >= playEnd(s)
          /\ mgrs' = [mgrs EXCEPT ![i].sources = @ \ {s}]
          /\ hist' = [hist EXCEPT ![i].gone = @ \cup {s.n}]
    /\ lastOp' = Quiet
    /\ UNCHANGED <<microtasks, budget, app, codec, rec>>

\* -------------------------------------------------- disconnect(), 352-359
noteDisconnect(h, m) ==
    [noteFlush(h, m) EXCEPT !.epochEnd = -1,
              !.cancelled = h.cancelled \/ m.pc \in {"awaitMic", "awaitSession"},
              !.disconnected = h.disconnected \/ m.session = "open"]

disconnectOp(i) ==
    [op |-> "disconnect", m |-> i,
     again |-> lastOp.op = "disconnect" /\ lastOp.m = i,
     active |-> Active(mgrs[i])]

Disconnect(i) ==
    /\ Idle
    /\ mgrs' = [mgrs EXCEPT ![i] = disconnect(mgrs[i])]
    /\ hist' = [hist EXCEPT ![i] = noteDisconnect(hist[i], mgrs[i])]
    /\ lastOp' = disconnectOp(i)
    /\ UNCHANGED <<microtasks, budget, app, codec, rec>>

\* ------------------------------------------------------------------ Spec
\* One VoiceSessionManager, constructed with the application's callbacks
\* and driven through its public interface by any caller.
Next ==
    \/ \E i \in DOMAIN mgrs : Connect(i)
    \/ \E i \in DOMAIN mgrs : MicGranted(i)
    \/ \E i \in DOMAIN mgrs : MicDenied(i)
    \/ \E i \in DOMAIN mgrs : TransportFail(i)
    \/ \E i \in DOMAIN mgrs : OnOpen(i)
    \/ \E i \in DOMAIN mgrs : SessionResolved(i)
    \/ \E i \in DOMAIN mgrs : \E msg \in AudioMsgs : Deliver(i, msg)
    \/ RunDecoded
    \/ RunCallback
    \/ \E i \in DOMAIN mgrs : Tick(i)
    \/ \E i \in DOMAIN mgrs : Ended(i)
    \/ \E i \in DOMAIN mgrs : Disconnect(i)
    \/ \E i \in DOMAIN mgrs : OnError(i)

Spec == Init /\ [][Next]_vars

\* --------------------------------------------------------------- App.tsx
\* handleUrlSubmit up to `await ai.models.generateContent`.
HandleUrlSubmit ==
    /\ Idle
    /\ app.state = "IDLE"
    /\ ~app.analyzing
    /\ app' = [app EXCEPT !.state = "PREPARING", !.error = "none",
                          !.transcriptions = <<>>, !.analyzing = TRUE,
                          !.replyEntry = 0]
    /\ lastOp' = Quiet
    /\ UNCHANGED <<mgrs, hist, microtasks, budget, codec, rec>>

\* ... and after it: the profile is stored, or the catch runs.
AnalyzeDone(ok) ==
    /\ Idle
    /\ app.analyzing
    /\ app' = IF ok
              THEN [app EXCEPT !.websiteData = TRUE, !.state = "READY",
                               !.analyzing = FALSE]
              ELSE [app EXCEPT !.error = "Strategic mapping failed.",
                               !.state = "IDLE", !.analyzing = FALSE]
    /\ lastOp' = Quiet
    /\ UNCHANGED <<mgrs, hist, microtasks, budget, codec, rec>>

\* startVoice up to the await inside connect(): a new manager is stored in
\* sessionManager.current and its connect() runs to `await getUserMedia`,
\* or into its catch and then into startVoice's.
StartVoice ==
    /\ Idle
    /\ app.state = "READY"
    /\ app.websiteData
    /\ Len(mgrs) < MaxSessions
    /\ \E throws \in constructorThrows(app.apiKey) :
          LET a == [app EXCEPT !.state = "CONNECTING", !.transcriptions = <<>>,
                               !.current = Len(mgrs) + 1, !.mode = "VOICE",
                               !.replyEntry = 0]
          IN  /\ mgrs' = Append(mgrs,
                     connectStart(VoiceSessionManager(app.apiKey), throws))
              /\ app' = IF throws THEN connectCatchApp(a, TRUE) ELSE a
              /\ lastOp' = IF throws THEN Op("connectFailed", Len(mgrs) + 1)
                           ELSE Quiet
    /\ hist' = Append(hist, [NewHist EXCEPT !.awaited = TRUE])
    /\ UNCHANGED <<microtasks, budget, codec, rec>>

\* sessionManager.current?.disconnect()
disconnectCurrent(ms, a) ==
    IF a.current = 0 THEN ms
    ELSE [ms EXCEPT ![a.current] = disconnect(ms[a.current])]

noteDisconnectCurrent(hs, ms, a) ==
    IF a.current = 0 THEN hs
    ELSE [hs EXCEPT ![a.current] = noteDisconnect(hs[a.current], ms[a.current])]

\* stopConversation (the stop button of the conversation view).
StopConversation ==
    /\ Idle
    /\ app.state \in {"CONNECTING", "CONVERSING"}
    /\ mgrs' = disconnectCurrent(mgrs, app)
    /\ hist' = noteDisconnectCurrent(hist, mgrs, app)
    /\ app' = [app EXCEPT !.state = "READY", !.isModelSpeaking = FALSE,
                          !.isUserSpeaking = FALSE, !.chatSession = FALSE]
    /\ lastOp' = IF app.current = 0 THEN Quiet ELSE disconnectOp(app.current)
    /\ UNCHANGED <<microtasks, budget, codec, rec>>

\* resetToHome (the header logo, shown in every state).
ResetToHome ==
    /\ Idle
    /\ mgrs' = disconnectCurrent(mgrs, app)
    /\ hist' = noteDisconnectCurrent(hist, mgrs, app)
    /\ app' = [app EXCEPT !.websiteData = FALSE, !.transcriptions = <<>>,
                          !.state = "IDLE", !.error = "none",
                          !.chatSession = FALSE, !.replyEntry = 0]
    /\ lastOp' = IF app.current = 0 THEN Quiet ELSE disconnectOp(app.current)
    /\ UNCHANGED <<microtasks, budget, codec, rec>>

\* ---------------------------------------------------------------- SpecApp
\* The application: managers exist only as startVoice creates them.  The
\* transport delivers transcription and turn-complete messages and no audio,
\* so the audio clock plays no part here.
InitVoiceApp ==
    /\ mgrs = <<>>
    /\ hist = <<>>
    /\ microtasks = <<>>
    /\ budget = MaxMsgs
    /\ lastOp = Quiet
    /\ app \in {[AppInitial EXCEPT !.apiKey = k] : k \in ApiKeys}
    /\ codec = NoCodec
    /\ rec = NewRecorder

NextApp ==
    \/ HandleUrlSubmit
    \/ \E ok \in BOOLEAN : AnalyzeDone(ok)
    \/ StartVoice
    \/ StopConversation
    \/ ResetToHome
    \/ \E i \in DOMAIN mgrs : MicGranted(i)
    \/ \E i \in DOMAIN mgrs : MicDenied(i)
    \/ \E i \in DOMAIN mgrs : TransportFail(i)
    \/ \E i \in DOMAIN mgrs : OnOpen(i)
    \/ \E i \in DOMAIN mgrs : SessionResolved(i)
    \/ \E i \in DOMAIN mgrs : \E msg \in TurnMsgs : Deliver(i, msg)
    \/ RunCallback
    \/ \E i \in DOMAIN mgrs : OnError(i)

SpecApp == InitVoiceApp /\ [][NextApp]_vars

\* --------------------------------------------------------------- SpecChat
\* The text chat.  A text is the sequence of its pieces.  app.chatSession:
\* chatSession.current is not null; app.stream: the position of the running
\* handleSendMessage ("awaitStream": at `await sendMessageStream`,
\* "streaming": in its `for await`) and its fullModelResponse.
\* app.replyEntry is history: the position in the transcript of the model
\* entry handleSendMessage appended for the reply in flight, 0 when there
\* is none or the transcript was replaced since.
MaxEntries == 5

Greeting == <<"greeting">>
UserMsg == <<"q">>
ChunkTexts == {<<>>, <<"c">>}
NoStream == [pc |-> "none", full |-> <<>>]

\* startChat (the chat button of the READY view).  `new GoogleGenAI` comes
\* after the first three setters and before the session and the greeting.
StartChat ==
    /\ Idle
    /\ app.state = "READY"
    /\ app.websiteData
    /\ \E throws \in constructorThrows(app.apiKey) :
          LET a == [app EXCEPT !.mode = "CHAT", !.state = "CONVERSING",
                               !.transcriptions = <<>>, !.replyEntry = 0]
          IN  app' = IF throws THEN a
                     ELSE [a EXCEPT !.chatSession = TRUE,
                                    !.transcriptions =
                                        <<[text |-> Greeting, type |-> "model"]>>]
    /\ lastOp' = Quiet
    /\ UNCHANGED <<mgrs, hist, microtasks, budget, codec, rec>>

\* handleSendMessage up to `await sendMessageStream` (the chat form, shown
\* in the conversation view in chat mode).
SendMessage ==
    /\ Idle
    /\ app.state \in {"CONNECTING", "CONVERSING"}
    /\ app.mode = "CHAT"
    /\ app.chatSession
    /\ ~app.isChatLoading
    /\ Len(app.transcriptions) + 2 <= MaxEntries
    /\ app' = [app EXCEPT
                  !.transcriptions = Append(@, [text |-> UserMsg, type |-> "user"]),
                  !.isChatLoading = TRUE,
                  !.stream = [pc |-> "awaitStream", full |-> <<>>]]
    /\ lastOp' = Quiet
    /\ UNCHANGED <<mgrs, hist, microtasks, budget, codec, rec>>

\* sendMessageStream resolves: fullModelResponse = '' and the model entry
\* of the reply is appended.
StreamOpened ==
    /\ Idle
    /\ app.stream.pc = "awaitStream"
    /\ app.apiKey = "valid"
    /\ app' = [app EXCEPT
                  !.transcriptions = Append(@, [text |-> <<>>, type |-> "model"]),
                  !.stream.pc = "streaming",
                  !.replyEntry = Len(app.transcriptions) + 1]
    /\ lastOp' = Quiet
    /\ UNCHANGED <<mgrs, hist, microtasks, budget, codec, rec>>

\* The updater of a chunk: a copy of prev with its last position set to the
\* model entry.  On an empty list the store goes to the property "-1" and
\* the list stays empty.
chunkUpdate(prev, full) ==
    IF prev = <<>> THEN prev
    ELSE [prev EXCEPT ![Len(prev)] = [text |-> full, type |-> "model"]]

\* One iteration of the `for await`.
Chunk(text) ==
    /\ Idle
    /\ app.stream.pc = "streaming"
    /\ budget > 0
    /\ budget' = budget - 1
    /\ LET full == app.stream.full \o text
       IN  app' = [app EXCEPT !.stream.full = full,
                              !.transcriptions = chunkUpdate(@, full)]
    /\ lastOp' = Quiet
    /\ UNCHANGED <<mgrs, hist, microtasks, codec, rec>>

\* The stream ends: `finally`.
StreamEnd ==
    /\ Idle
    /\ app.stream.pc = "streaming"
    /\ app' = [app EXCEPT !.isChatLoading = FALSE, !.stream = NoStream,
                          !.replyEntry = 0]
    /\ lastOp' = Quiet
    /\ UNCHANGED <<mgrs, hist, microtasks, budget, codec, rec>>

\* sendMessageStream rejects or the stream throws: `catch`, then `finally`.
StreamFail ==
    /\ Idle
    /\ app.stream.pc \in {"awaitStream", "streaming"}
    /\ app' = [app EXCEPT !.error = "Strategic consultation interrupted.",
                          !.isChatLoading = FALSE, !.stream = NoStream,
                          !.replyEntry = 0]
    /\ lastOp' = Quiet
    /\ UNCHANGED <<mgrs, hist, microtasks, budget, codec, rec>>

NextChat ==
    \/ HandleUrlSubmit
    \/ \E ok \in BOOLEAN : AnalyzeDone(ok)
    \/ StartChat
    \/ SendMessage
    \/ StreamOpened
    \/ \E text \in ChunkTexts : Chunk(text)
    \/ StreamEnd
    \/ StreamFail
    \/ StartVoice
    \/ StopConversation
    \/ ResetToHome

SpecChat == InitVoiceApp /\ [][NextChat]_vars

\* ----------------------------------------------------------- SpecSpeaking
\* The application in a voice session, the transport delivering model
\* turns (audio), input transcriptions, both in one message, and
\* turn-complete messages, with the handlers that write isModelSpeaking and
\* isUserSpeaking: the message callback and stopConversation.
MaxSpeakMsgs == 2       \* messages the transport may deliver
MaxSpeakSessions == 1   \* voice sessions the user may start

SpeakMsgs ==
    {Msg(1, FALSE, Absent, Absent, FALSE),
     Msg(0, FALSE, <<"a">>, Absent, FALSE),
     Msg(1, FALSE, <<"a">>, Absent, FALSE),
     Msg(0, FALSE, Absent, Absent, TRUE)}

InitSpeaking ==
    /\ mgrs = <<>>
    /\ hist = <<>>
    /\ microtasks = <<>>
    /\ budget = MaxSpeakMsgs
    /\ lastOp = Quiet
    /\ app \in {[AppInitial EXCEPT !.apiKey = k] : k \in ApiKeys}
    /\ codec = NoCodec
    /\ rec = NewRecorder

NextSpeaking ==
    \/ HandleUrlSubmit
    \/ \E ok \in BOOLEAN : AnalyzeDone(ok)
    \/ Len(mgrs) < MaxSpeakSessions /\ StartVoice
    \/ StopConversation
    \/ \E i \in DOMAIN mgrs : MicGranted(i)
    \/ \E i \in DOMAIN mgrs : OnOpen(i)
    \/ \E i \in DOMAIN mgrs : SessionResolved(i)
    \/ \E i \in DOMAIN mgrs : \E msg \in SpeakMsgs : Deliver(i, msg)
    \/ RunDecoded
    \/ RunCallback

SpecSpeaking == InitSpeaking /\ [][NextSpeaking]_vars

\* ----------------------------------------------------------- SpecRecorder
\* services/geminiService.ts: the manager that records with a MediaRecorder
\* and posts each recording when the recorder's stop event arrives.
MaxChunks == 3
MaxRecordings == 2

InitRecorder ==
    /\ mgrs = <<>>
    /\ hist = <<>>
    /\ microtasks = <<>>
    /\ budget = 0
    /\ lastOp = Quiet
    /\ app = AppInitial
    /\ codec = NoCodec
    /\ rec = NewRecorder

removeAt(s, k) == SubSeq(s, 1, k - 1) \o SubSeq(s, k + 1, Len(s))

\* initializeMicrophone() at the settlement of getUserMedia: a stream and a
\* recorder with its two handlers, or the catch.  The caller initialises
\* while no recording runs.
InitializeMicrophone(ok) ==
    /\ ~rec.isRecording
    /\ rec' = IF ok THEN [rec EXCEPT !.mediaRecorder = TRUE,
                                     !.audioStream = "live"]
              ELSE rec
    /\ UNCHANGED <<mgrs, hist, microtasks, budget, lastOp, app, codec>>

\* startRecording(): the buffer is cleared, then MediaRecorder.start(1000),
\* which may throw on a stream whose tracks were stopped.
StartRecording ==
    /\ rec.mediaRecorder
    /\ ~rec.isRecording
    /\ rec.recordings < MaxRecordings
    /\ \E throws \in (IF rec.audioStream = "live" THEN {FALSE} ELSE BOOLEAN) :
          rec' = IF throws THEN [rec EXCEPT !.audioChunks = <<>>]
                 ELSE [rec EXCEPT !.audioChunks = <<>>,
                                  !.isRecording = TRUE,
                                  !.live = rec.audioStream = "live",
                                  !.recordings = @ + 1]
    /\ UNCHANGED <<mgrs, hist, microtasks, budget, lastOp, app, codec>>

\* ondataavailable at a timeslice, with data of size > 0.
DataAvailable ==
    /\ rec.isRecording
    /\ rec.live
    /\ rec.next <= MaxChunks
    /\ rec' = [rec EXCEPT !.audioChunks = Append(@, rec.next),
                          !.recorded = @ \cup {rec.next},
                          !.next = @ + 1]
    /\ UNCHANGED <<mgrs, hist, microtasks, budget, lastOp, app, codec>>

\* stopRecording(): MediaRecorder.stop() queues the task that fires
\* dataavailable and stop; the tracks are stopped.
StopRecording ==
    /\ rec.mediaRecorder
    /\ rec.isRecording
    /\ rec' = [rec EXCEPT !.isRecording = FALSE,
                          !.tasks = Append(@, [live |-> rec.live]),
                          !.audioStream = "stopped"]
    /\ UNCHANGED <<mgrs, hist, microtasks, budget, lastOp, app, codec>>

\* processAudioChunks() up to `await blobToBase64`: nothing on an empty
\* buffer, else the blob of the buffer as it is now.
processAudioChunks(r) ==
    IF r.audioChunks = <<>> THEN r
    ELSE [r EXCEPT !.procs = Append(@, [pc |-> "encode", blob |-> r.audioChunks])]

\* The task of MediaRecorder.stop(): ondataavailable with the data gathered
\* since the last timeslice (of size 0 or more), then onstop.
StopTask ==
    /\ rec.tasks # <<>>
    /\ \E hasData \in (IF Head(rec.tasks).live /\ rec.next <= MaxChunks
                        THEN BOOLEAN ELSE {FALSE}) :
          LET r == IF hasData
                   THEN [rec EXCEPT !.audioChunks = Append(@, rec.next),
                                    !.recorded = @ \cup {rec.next},
                                    !.next = @ + 1]
                   ELSE rec
          IN  rec' = processAudioChunks([r EXCEPT !.tasks = Tail(@)])
    /\ UNCHANGED <<mgrs, hist, microtasks, budget, lastOp, app, codec>>

\* blobToBase64 settles: sendAudioToGemini posts the blob, or the catch.
EncodeDone(ok) ==
    /\ \E k \in DOMAIN rec.procs :
          /\ rec.procs[k].pc = "encode"
          /\ rec' = IF ok
                    THEN [rec EXCEPT !.procs[k].pc = "send",
                                     !.sent = @ \o rec.procs[k].blob]
                    ELSE [rec EXCEPT !.procs = removeAt(@, k), !.failed = TRUE]
    /\ UNCHANGED <<mgrs, hist, microtasks, budget, lastOp, app, codec>>

\* sendAudioToGemini settles: `this.audioChunks = []`, or the catch.
SendDone(ok) ==
    /\ \E k \in DOMAIN rec.procs :
          /\ rec.procs[k].pc = "send"
          /\ rec' = IF ok
                    THEN [rec EXCEPT !.procs = removeAt(@, k),
                                     !.audioChunks = <<>>]
                    ELSE [rec EXCEPT !.procs = removeAt(@, k), !.failed = TRUE]
    /\ UNCHANGED <<mgrs, hist, microtasks, budget, lastOp, app, codec>>

NextRecorder ==
    \/ \E ok \in BOOLEAN : InitializeMicrophone(ok)
    \/ StartRecording
    \/ DataAvailable
    \/ StopRecording
    \/ StopTask
    \/ \E ok \in BOOLEAN : EncodeDone(ok)
    \/ \E ok \in BOOLEAN : SendDone(ok)

SpecRecorder == InitRecorder /\ [][NextRecorder]_vars

\* --------------------------------------------------------------- SpecTurn
\* One manager, the transport delivering transcription and turn-complete
\* messages to it.
NextTurn ==
    \/ \E i \in DOMAIN mgrs : Connect(i)
    \/ \E i \in DOMAIN mgrs : MicGranted(i)
    \/ \E i \in DOMAIN mgrs : MicDenied(i)
    \/ \E i \in DOMAIN mgrs : TransportFail(i)
    \/ \E i \in DOMAIN mgrs : OnOpen(i)
    \/ \E i \in DOMAIN mgrs : SessionResolved(i)
    \/ \E i \in DOMAIN mgrs : \E msg \in TurnMsgs : Deliver(i, msg)
    \/ RunCallback
    \/ \E i \in DOMAIN mgrs : Disconnect(i)
    \/ \E i \in DOMAIN mgrs : OnError(i)

SpecTurn == Init /\ [][NextTurn]_vars

\* ------------------------------------------------------------- SpecDecode
\* One manager, the transport delivering audio payloads that decode and
\* payloads that do not.
NextDecode ==
    \/ \E i \in DOMAIN mgrs : Connect(i)
    \/ \E i \in DOMAIN mgrs : MicGranted(i)
    \/ \E i \in DOMAIN mgrs : MicDenied(i)
    \/ \E i \in DOMAIN mgrs : TransportFail(i)
    \/ \E i \in DOMAIN mgrs : OnOpen(i)
    \/ \E i \in DOMAIN mgrs : SessionResolved(i)
    \/ \E i \in DOMAIN mgrs : \E msg \in DecodeMsgs : Deliver(i, msg)
    \/ RunDecoded
    \/ RunCallback
    \/ \E i \in DOMAIN mgrs : Tick(i)
    \/ \E i \in DOMAIN mgrs : Ended(i)
    \/ \E i \in DOMAIN mgrs : Disconnect(i)
    \/ \E i \in DOMAIN mgrs : OnError(i)

SpecDecode == Init /\ [][NextDecode]_vars

\* ------------------------------------------------------------ SpecCapture
\* One manager and its microphone capture.
NextCapture ==
    \/ \E i \in DOMAIN mgrs : Connect(i)
    \/ \E i \in DOMAIN mgrs : MicGranted(i)
    \/ \E i \in DOMAIN mgrs : MicDenied(i)
    \/ \E i \in DOMAIN mgrs : TransportFail(i)
    \/ \E i \in DOMAIN mgrs : OnOpen(i)
    \/ \E i \in DOMAIN mgrs : SessionResolved(i)
    \/ \E i \in DOMAIN mgrs : AudioProcess(i)
    \/ \E i \in DOMAIN mgrs : Disconnect(i)
    \/ \E i \in DOMAIN mgrs : OnError(i)

SpecCapture == Init /\ [][NextCapture]_vars

\* -------------------------------------------------------------- SpecCodec
\* The conversions on their own: a byte sequence through encode and decode,
\* a sample array through createBlob, decode and decodeAudioData.
MaxBytes == 3        \* length of a byte sequence
MaxSamples == 2      \* length of a sample array

ByteValues == {0, 1, 63, 127, 128, 255}

SampleValues ==
    {-SampleDen, 1 - SampleDen, -Int16Scale, -3, -1, 0, 1, 2,
     Int16Scale, SampleDen - 1, SampleDen}

\* Samples for the encoder alone: those, and samples outside [-1, 1].
EncoderValues ==
    SampleValues \cup {SampleDen + 1, 3 * Int16Scale, -3 * Int16Scale,
                       -SampleDen - 2}

SeqsUpTo(S, n) == UNION {[1..k -> S] : k \in 0..n}

InitCodec ==
    /\ mgrs = <<>>
    /\ hist = <<>>
    /\ microtasks = <<>>
    /\ budget = 0
    /\ lastOp = Quiet
    /\ app = AppInitial
    /\ codec \in
          {[NoCodec EXCEPT !.kind = "bytes", !.input = b] :
               b \in SeqsUpTo(ByteValues, MaxBytes)}
          \cup {[NoCodec EXCEPT !.kind = "samples", !.input = d] :
                    d \in SeqsUpTo(SampleValues, MaxSamples)}
          \cup {[NoCodec EXCEPT !.kind = "encoder", !.input = d] :
                    d \in SeqsUpTo(EncoderValues, MaxSamples)}
    /\ rec = NewRecorder

\* decode(encode(B)).
TransportRoundTrip ==
    /\ codec.kind = "bytes"
    /\ ~codec.done
    /\ codec' = [codec EXCEPT !.output = decode(encode(codec.input)),
                              !.done = TRUE]
    /\ UNCHANGED <<mgrs, hist, microtasks, budget, lastOp, app, rec>>

\* decodeAudioData(decode(createBlob(S).data)).
PcmRoundTrip ==
    /\ codec.kind = "samples"
    /\ ~codec.done
    /\ codec' = [codec EXCEPT
                    !.output = decodeAudioData(decode(createBlob(codec.input))),
                    !.done = TRUE]
    /\ UNCHANGED <<mgrs, hist, microtasks, budget, lastOp, app, rec>>

\* The bytes createBlob(S) puts on the wire.
PcmEncode ==
    /\ codec.kind = "encoder"
    /\ ~codec.done
    /\ codec' = [codec EXCEPT !.output = decode(createBlob(codec.input)),
                              !.done = TRUE]
    /\ UNCHANGED <<mgrs, hist, microtasks, budget, lastOp, app, rec>>

NextCodec ==
    \/ TransportRoundTrip
    \/ PcmRoundTrip
    \/ PcmEncode

SpecCodec == InitCodec /\ [][NextCodec]_vars

\* ================================================================= claims
\* What a claim calls released, for one manager.
captureRunning(m) == m.capture /\ m.inputContext = "running"

deviceReleased(m) ==
    /\ m.stream # "live"
    /\ m.inputContext # "running"
    /\ m.audioContext # "running"

transportLive(m) == m.session \in {"connecting", "open"}

\* The interval a live source plays in.
playStart(s) == Max(s.when, s.at)

\* C1: without an interruption in between, a chunk is started at exactly
\* max(clock time when it was enqueued, start + duration of the chunk before
\* it), so not before the chunk before it ends, and nextStartTime is then its
\* start time plus its duration.
C1_StartIsMaxOfClockAndPreviousEnd ==
    \A i \in DOMAIN hist :
        LET s == hist[i].lastStart IN
        s.n > 0 =>
            /\ s.nst = s.when + s.dur
            /\ s.pend >= 0 => (s.when = Max(s.at, s.pend) /\ s.when >= s.pend)

\* C1's case: a chunk that arrived after the chunk before it had ended, and
\* one that arrived while the chunk before it was still to end.
C1_Witness ==
    \E i \in DOMAIN mgrs :
        /\ \E s \in mgrs[i].sources : s.pend >= 0 /\ s.at > s.pend
        /\ \E s \in mgrs[i].sources : s.pend >= 0 /\ s.at < s.pend

\* C2: the sources of the live set play in pairwise disjoint intervals, in
\* the order their chunks arrived, and a chunk that arrived while the chunk
\* before it had not ended starts exactly where that one ends.
C2_LiveSetDisjointOrderedGapless ==
    \A i \in DOMAIN mgrs :
        /\ \A s1, s2 \in mgrs[i].sources :
              s1.n < s2.n => playEnd(s1) <= playStart(s2)
        /\ \A s \in mgrs[i].sources :
              (s.pend >= 0 /\ s.at <= s.pend) => playStart(s) = s.pend

\* C3: when an Interrupted event has been handled the live set is empty and
\* nextStartTime is 0, and the first chunk enqueued after it plays from the
\* clock time of its enqueue, not from a later time.
C3_InterruptResetsSchedule ==
    /\ lastOp.op = "interrupted" =>
          /\ mgrs[lastOp.m].sources = {}
          /\ mgrs[lastOp.m].nextStartTime = 0
    /\ \A i \in DOMAIN hist :
          (hist[i].lastStart.n > 0 /\ hist[i].lastStart.fai)
              => playStart(hist[i].lastStart) = hist[i].lastStart.at

\* C4: no chunk that arrived before a handled Interrupted event is started
\* afterwards or is in the live set afterwards.
C4_NoStaleChunkAfterInterrupt ==
    \A i \in DOMAIN mgrs :
        /\ \A s \in mgrs[i].sources : s.n > hist[i].intAt
        /\ hist[i].lastStart.n > 0 => ~hist[i].lastStart.stale

\* The step in which the message callback runs for a TurnComplete message.
TurnCompleteStep ==
    /\ microtasks # <<>>
    /\ Head(microtasks).kind = "callback"
    /\ Head(microtasks).msg.turnComplete
    /\ microtasks' = Tail(microtasks)

delta(field) == IF field = Absent THEN <<>> ELSE field

\* C5: a TurnComplete appends one entry per non-empty transcription buffer,
\* the user's before the model's, at most two, none with an empty text, and
\* leaves both buffers empty.
C5_TurnFlush ==
    [][TurnCompleteStep =>
        LET msg == Head(microtasks).msg
            user == app.transcriptionBuffer.user \o delta(msg.inputTranscription)
            model == app.transcriptionBuffer.model \o delta(msg.outputTranscription)
            old == app.transcriptions
            now == app'.transcriptions
            new == SubSeq(now, Len(old) + 1, Len(now))
        IN  /\ Len(now) >= Len(old)
            /\ SubSeq(now, 1, Len(old)) = old
            /\ Len(new) = (IF user # <<>> THEN 1 ELSE 0)
                          + (IF model # <<>> THEN 1 ELSE 0)
            /\ Len(new) <= 2
            /\ \A k \in 1..Len(new) : new[k].text # <<>>
            /\ user # <<>> => new[1].type = "user"
            /\ model # <<>> => new[Len(new)].type = "model"
            /\ app'.transcriptionBuffer = [user |-> <<>>, model |-> <<>>]
    ]_vars

\* C5's case: a TurnComplete has flushed a turn with text on both sides.
C5_Witness ==
    /\ microtasks = <<>>
    /\ app.transcriptionBuffer = [user |-> <<>>, model |-> <<>>]
    /\ Len(app.transcriptions) = 2
    /\ app.transcriptions[1].type = "user"
    /\ app.transcriptions[2].type = "model"

\* C6: the entries a TurnComplete appends carry exactly the transcription
\* deltas its session received since the session's previous TurnComplete,
\* concatenated in arrival order.
C6_FlushIsTurnText ==
    [][TurnCompleteStep =>
        LET t == Head(microtasks)
            old == app.transcriptions
            now == app'.transcriptions
        IN  /\ Len(now) >= Len(old)
            /\ SubSeq(now, Len(old) + 1, Len(now))
                   = turnEntries(t.expUser, t.expModel)
    ]_vars

\* C7: disconnect() on an Active session leaves capture stopped, the live
\* set empty, the transport closed, both contexts closed and the stream's
\* tracks stopped.
C7_DisconnectTearsDown ==
    (lastOp.op = "disconnect" /\ lastOp.active) =>
        LET m == mgrs[lastOp.m] IN
        /\ ~captureRunning(m)
        /\ m.sources = {}
        /\ ~transportLive(m)
        /\ deviceReleased(m)

\* C8: a disconnect() that follows a disconnect(), or is called on a manager
\* never connected, changes nothing and leaves no device or transport
\* resource acquired.
C8_DisconnectIdempotent ==
    [][(/\ lastOp'.op = "disconnect"
        /\ lastOp'.again \/ mgrs[lastOp'.m].pc = "new")
       => /\ mgrs'[lastOp'.m] = mgrs[lastOp'.m]
          /\ deviceReleased(mgrs'[lastOp'.m])
          /\ ~transportLive(mgrs'[lastOp'.m])
    ]_vars

\* C9: once disconnect() was called while connect() was suspended, the
\* manager holds no microphone stream, no open context, no running capture
\* and no live transport, whatever completes later.
C9_DisconnectCancelsConnect ==
    \A i \in DOMAIN mgrs :
        hist[i].cancelled =>
            /\ deviceReleased(mgrs[i])
            /\ ~captureRunning(mgrs[i])
            /\ mgrs[i].session # "open"

\* C10: when connect() has failed, no microphone stream and no audio context
\* acquired on the way remains.
C10_FailedConnectRollsBack ==
    lastOp.op = "connectFailed" => deviceReleased(mgrs[lastOp.m])

\* C11: a manager whose credential is missing or invalid never acquires the
\* microphone stream or an audio context.
C11_NoResourceWithoutCredentials ==
    \A i \in DOMAIN mgrs :
        mgrs[i].apiKey # "valid" =>
            /\ mgrs[i].stream = "none"
            /\ mgrs[i].inputContext = "none"
            /\ mgrs[i].audioContext = "none"

\* C12: when the transport's onerror has run on an open session, the failed
\* session holds no microphone stream, no open audio context, no running
\* capture and no transport.
C12_TransportErrorTearsDown ==
    lastOp.op = "transportError" =>
        LET m == mgrs[lastOp.m] IN
        /\ deviceReleased(m)
        /\ ~captureRunning(m)
        /\ ~transportLive(m)

\* C13: every transport error of a manager reaches the caller through the
\* error callback exactly once and through no other channel (connect() does
\* not reject for it as well).
C13_TransportErrorReportedOnce ==
    \A i \in DOMAIN hist :
        /\ hist[i].reported = hist[i].errors
        /\ hist[i].rethrown = 0

\* C14: at any time at most one VoiceSessionManager holds a live microphone
\* stream or a running audio context.
C14_OneManagerHoldsDevices ==
    Cardinality({i \in DOMAIN mgrs : ~deviceReleased(mgrs[i])}) <= 1

\* The step in which the message callback runs.
CallbackStep ==
    /\ microtasks # <<>>
    /\ Head(microtasks).kind = "callback"
    /\ microtasks' = Tail(microtasks)

\* C15: the message callback runs for the messages of a manager in the order
\* the transport delivered them.
C15_CallbacksInTransportOrder ==
    [][CallbackStep =>
        Head(microtasks).seq > hist[Head(microtasks).m].lastCb
    ]_vars

\* C16: the message callback runs exactly once for every message delivered to
\* a manager: never more often than messages were delivered, and as often
\* once no continuation of the manager is left to run.
C16_CallbackOncePerMessage ==
    \A i \in DOMAIN hist :
        /\ hist[i].called <= hist[i].delivered
        /\ (\A k \in 1..Len(microtasks) : microtasks[k].m # i)
              => hist[i].called = hist[i].delivered

\* What C1 calls a normally scheduled chunk.
scheduledNormally(s) ==
    /\ s.nst = s.when + s.dur
    /\ s.pend >= 0 => s.when = Max(s.at, s.pend)
    /\ s.pend < 0 => s.when <= s.at

Abs(x) == IF x >= 0 THEN x ELSE -x

\* C18: every sample of [-1, 1] comes back from the PCM encoding within
\* 1/32768 of its value: with the sample n / SampleDen and the result
\* v / Int16Scale, |n - 2 v| <= 2.
C18_PcmRoundTripWithinQuantum ==
    (codec.kind = "samples" /\ codec.done) =>
        /\ Len(codec.output) = Len(codec.input)
        /\ \A k \in 1..Len(codec.input) :
              Abs(codec.input[k] - 2 * codec.output[k]) <= 2

\* C19: decode(encode(B)) = B for every byte sequence B.
C19_TransportRoundTrip ==
    (codec.kind = "bytes" /\ codec.done) => codec.output = codec.input

\* C19's case: a sequence with a byte above 127 whose length is not a
\* multiple of three has gone through encode and decode.
C19_Witness ==
    /\ codec.kind = "bytes"
    /\ codec.done
    /\ Len(codec.input) % 3 # 0
    /\ \E k \in 1..Len(codec.input) : codec.input[k] > 127

\* C20: no frame is handed to the transport before the session promise has
\* resolved; the frames captured before wait in capture order and are all
\* handed over when it resolves; every captured frame is handed over once,
\* in capture order.
C20_FramesSentOnceInOrder ==
    \A i \in DOMAIN mgrs :
        /\ hist[i].sent \o mgrs[i].thens = [k \in 1..hist[i].captured |-> k]
        /\ hist[i].sent # <<>> => mgrs[i].pc = "resolved"
        /\ mgrs[i].pc = "resolved" => mgrs[i].thens = <<>>

\* C20's case: two frames or more waited for the session and a later frame
\* was sent after them.
C20_Witness ==
    \E i \in DOMAIN mgrs :
        /\ hist[i].flushed >= 2
        /\ Len(hist[i].sent) > hist[i].flushed

\* C21: once disconnect() was called on a manager with an open session, no
\* frame of it is handed to the transport, its message callback does not run
\* and no source is started or added to its live set.
C21_InertAfterDisconnect ==
    [][\A i \in DOMAIN hist :
          hist[i].disconnected =>
              /\ hist'[i].sent = hist[i].sent
              /\ hist'[i].called = hist[i].called
              /\ hist'[i].lastStart = hist[i].lastStart
              /\ mgrs'[i].sources \subseteq mgrs[i].sources
    ]_vars

\* C22: when getUserMedia was denied, connect() has failed with the error
\* handed to the caller, and the manager never has a stream, an audio
\* context or a transport connection, nor asks for the microphone again.
C22_MicDeniedIsFatal ==
    \A i \in DOMAIN mgrs :
        hist[i].denied =>
            /\ mgrs[i].pc = "failed"
            /\ app.error # "none"
            /\ mgrs[i].stream = "none"
            /\ mgrs[i].inputContext = "none"
            /\ mgrs[i].audioContext = "none"
            /\ mgrs[i].session = "none"

\* C22's case: the microphone was denied and the caller went on to call
\* disconnect().
C22_Witness ==
    /\ lastOp.op = "disconnect"
    /\ hist[lastOp.m].denied

\* C23: the encoder turns a sample x into the two bytes, low byte first, of
\* trunc(x * 32768) reduced modulo 2^16 into [-32768, 32767]; nothing is
\* clamped, so 1.0 gives -32768.
C23_EncoderTruncatesAndWraps ==
    (codec.kind = "encoder" /\ codec.done) =>
        /\ Len(codec.output) = 2 * Len(codec.input)
        /\ \A k \in 1..Len(codec.input) :
              LET n == codec.input[k]
                  t == IF n >= 0 THEN n \div 2 ELSE -((-n) \div 2)
                  u == codec.output[2 * k - 1] + 256 * codec.output[2 * k]
                  v == IF u >= 32768 THEN u - 65536 ELSE u
              IN  /\ codec.output[2 * k - 1] \in 0..255
                  /\ codec.output[2 * k] \in 0..255
                  /\ (v - t) % 65536 = 0
                  /\ n = SampleDen => v = -32768

\* C23's case: a full-scale sample and a sample beyond full scale were
\* encoded.
C23_Witness ==
    /\ codec.kind = "encoder"
    /\ codec.done
    /\ \E k \in 1..Len(codec.input) : codec.input[k] = SampleDen
    /\ \E k \in 1..Len(codec.input) : Abs(codec.input[k]) > SampleDen

\* C24: a manager starts with nextStartTime = 0, and nextStartTime never
\* decreases except to 0 in a step that is an interrupt or a disconnect of
\* that manager; no enqueue lowers it.
C24_NextStartTimeMonotonic ==
    /\ [](\A i \in DOMAIN mgrs :
            mgrs[i].pc = "new" => mgrs[i].nextStartTime = 0)
    /\ [][\A i \in DOMAIN mgrs :
            mgrs'[i].nextStartTime < mgrs[i].nextStartTime =>
                /\ mgrs'[i].nextStartTime = 0
                /\ lastOp'.op \in {"interrupted", "disconnect"}
                /\ lastOp'.m = i
        ]_vars

\* C24's case: a second chunk was enqueued behind a first one and
\* nextStartTime stands at its end.
C24_Witness ==
    \E i \in DOMAIN mgrs :
        /\ hist[i].lastStart.n >= 2
        /\ hist[i].lastStart.when > 0
        /\ mgrs[i].nextStartTime = hist[i].lastStart.when + hist[i].lastStart.dur

\* C25: in every reachable state the live set holds exactly the chunks that
\* were started and have neither ended nor been flushed by an interrupt or
\* a disconnect.
C25_LiveSetIsScheduledNotGone ==
    \A i \in DOMAIN mgrs :
        /\ ids(mgrs[i].sources) = hist[i].scheduled \ hist[i].gone
        /\ Cardinality(mgrs[i].sources) = Cardinality(ids(mgrs[i].sources))
        /\ lastOp.op \in {"interrupted", "disconnect"} =>
              mgrs[lastOp.m].sources = {}

\* C25's case: a flush emptied the set, chunks have left it, and a chunk
\* started since then is live.
C25_Witness ==
    \E i \in DOMAIN mgrs :
        /\ hist[i].intAt > 0
        /\ hist[i].gone # {}
        /\ mgrs[i].sources # {}

\* C26: when startVoice starts a session both transcription buffers are
\* empty, so that no text of an earlier session reaches an entry of the new
\* one.
C26_BuffersEmptyAtStartVoice ==
    [][Len(mgrs') > Len(mgrs) =>
          app'.transcriptionBuffer = [user |-> <<>>, model |-> <<>>]
    ]_vars

\* C27: the application enters CONVERSING only from the CONNECTING state a
\* start of a session put it in, and with a website profile: a connect()
\* that completes after stopConversation() (READY) or resetToHome() (IDLE)
\* does not move it there.
C27_NoConversingAfterStop ==
    [][(app'.state = "CONVERSING" /\ app.state # "CONVERSING") =>
          /\ app.state = "CONNECTING"
          /\ app'.websiteData
    ]_vars

\* A chunk of the streamed reply is handled.
ChunkStep ==
    /\ app.stream.pc = "streaming"
    /\ budget' = budget - 1

\* C28: a chunk update replaces nothing but the model entry created for the
\* reply in flight and leaves the length of the transcript as it is.
C28_ChunkOverwritesOwnEntryOnly ==
    [][ChunkStep =>
          /\ Len(app'.transcriptions) = Len(app.transcriptions)
          /\ \A k \in 1..Len(app.transcriptions) :
                k # app.replyEntry =>
                    app'.transcriptions[k] = app.transcriptions[k]
    ]_vars

\* C29: in every reachable state of the application isModelSpeaking and
\* isUserSpeaking are not both true.
C29_NotBothSpeaking ==
    ~(app.isModelSpeaking /\ app.isUserSpeaking)

\* C29's case: the callback ran for a message that carries both a model
\* turn and an input transcription.
C29_Witness ==
    /\ Len(mgrs) = 1
    /\ Idle
    /\ hist[1].delivered = 1
    /\ hist[1].called = 1
    /\ hist[1].scheduled # {}
    /\ app.transcriptionBuffer.user = <<"a">>
    /\ app.isUserSpeaking
    /\ ~app.isModelSpeaking

\* No recording runs, no recorder task is queued and no processAudioChunks
\* is in flight.
recorderQuiet ==
    /\ ~rec.isRecording
    /\ rec.tasks = <<>>
    /\ rec.procs = <<>>

\* C30: once the manager is quiet, and no encoding or request failed, every
\* chunk that was recorded has been sent to the API exactly once.
C30_EveryChunkSentOnce ==
    (recorderQuiet /\ ~rec.failed) =>
        \A c \in rec.recorded :
            Cardinality({k \in DOMAIN rec.sent : rec.sent[k] = c}) = 1

====
